---- MODULE Spec2Model ----
(***************************************************************************)
(* A model of typescript-estree's parser entry point (parser.js): the      *)
(* module-level state `extra` and `warnedAboutTSVersion`, generateAST and  *)
(* parse, together with the two collaborators generateAST calls and whose  *)
(* code lives in lib/ (the project resolution engine of                    *)
(* lib/tsconfig-parser and the conversion engine of lib/ast-converter).    *)
(*                                                                         *)
(* JavaScript values are modelled as strings: "true", "false",            *)
(* "undefined", "null", and "yes" for a truthy value that is not a        *)
(* boolean.                                                                *)
(*                                                                         *)
(* The module also models the fixture list of the AST alignment tests     *)
(* (tests/ast-alignment/fixtures-to-test.ts): the function                 *)
(* createFixturePatternConfigFor and the top-level code that builds        *)
(* fixturesToTest.                                                         *)
(***************************************************************************)
EXTENDS Integers, Sequences, FiniteSets, TLC

VARIABLES
  extra,                  \* parser.js:25   the module-level configuration object
  warnedAboutTSVersion,   \* parser.js:26
  supportedVersion,       \* parser.js:20   isRunningSupportedTypeScriptVersion
  knownPrograms,          \* the resolution engine's process-wide program cache
  configFiles,            \* the file system: what lies at each configuration path
  callCount,              \* number of generateAST calls entered so far (object identities)
  stack,                  \* generateAST frames suspended inside extra.log(...)
  result,                 \* outcome of the generateAST call that finished last
  logged,                 \* the loggers the version warning was handed to, in order
  requests,               \* per configuration path: its last two resolution requests
  kept,                   \* the outcome of an earlier call that the caller has kept
  \* tests/ast-alignment/fixtures-to-test.ts
  fixturesRequiringSourceTypeModule,  \* fixtures-to-test.ts:47
  fixturePatternConfigsToTest,        \* fixtures-to-test.ts:107
  fixturesToTest,                     \* fixtures-to-test.ts:542
  loading,                \* how far the evaluation of fixtures-to-test.ts has come
  created                 \* the calls of createFixturePatternConfigFor made so far

parserVars == <<extra, warnedAboutTSVersion, supportedVersion, knownPrograms,
                configFiles, callCount, stack, result, logged, requests, kept>>

fixtureVars == <<fixturesRequiringSourceTypeModule, fixturePatternConfigsToTest,
                 fixturesToTest, loading, created>>

vars == <<parserVars, fixtureVars>>

----------------------------------------------------------------------------
(* Bounds *)

\* generateAST calls in one behaviour
MaxCalls == 3
\* calls that can be in progress at once (one suspended in its logger, one running)
MaxDepth == 2

----------------------------------------------------------------------------
(* JavaScript values *)

Undef == "undefined"

\* JavaScript truthiness of a modelled value
Truthy(v) == v \notin {"undefined", "null", "false", ""}

\* the test without typeof: any truthy value enables the setting
IsTruthy(v) == Truthy(v)

\* typeof v === 'boolean' && v
IsTrue(v) == v = "true"

\* a code argument: a string, or another value that String() converts
StringCode(text) == [type |-> "string", value |-> text]
NumberCode(text) == [type |-> "number", value |-> text]

\* String(code), parser.js:60-64: a string is kept, any other value is converted
toString(code) == IF code.type = "string" THEN code.value
                  ELSE IF code.type = "number" THEN code.value
                  ELSE "[object Object]"

----------------------------------------------------------------------------
(* The inputs of parse: code and options *)

Codes == { StringCode("const x: number[] = [1, 2, 3];"),
           StringCode("export abstract class A {}"),
           NumberCode("3") }

\* the code of the project's files
ProjectCodes == { StringCode("const x: number[] = [1, 2, 3];") }

Files == { "isolated-file.src.ts", "import-file.src.ts", "other.src.ts" }

ConfigPaths == { "./tsconfig.json", "./lib/tsconfig.json", "./tsconfigs.json",
                 ".", "./badTSConfig/tsconfig.json" }

\* values of options.project
Str(v)          == [type |-> "string", value |-> v]
Num(v)          == [type |-> "number", value |-> v]
NoProject       == [type |-> "undefined", items |-> <<>>]
ProjectString(p) == [type |-> "string", items |-> <<Str(p)>>]
ProjectArray(a)  == [type |-> "array",  items |-> a]
ProjectNumber    == [type |-> "number", items |-> <<Num("42")>>]

\* values of options.ecmaFeatures
NoFeatures      == [type |-> "undefined", jsx |-> Undef]
\* options.ecmaFeatures given as null, or as a string: values that have no jsx
NullFeatures    == [type |-> "null", jsx |-> Undef]
StringFeatures  == [type |-> "string", jsx |-> Undef]

Features(jsx)   == [type |-> "object", jsx |-> jsx]

\* the options argument left out: parse(code)
NoOptions ==
  [ isDefined |-> FALSE, range |-> Undef, loc |-> Undef, source |-> Undef,
    tokens |-> Undef, comment |-> Undef, tolerant |-> Undef,
    ecmaFeatures |-> NoFeatures, errorOnUnknownASTType |-> Undef,
    useJSXTextNode |-> Undef, loggerFn |-> Undef, project |-> NoProject,
    filePath |-> Undef ]

\* parse(code, {})
EmptyOptions == [NoOptions EXCEPT !.isDefined = TRUE]

----------------------------------------------------------------------------
(* parser.js:25-47  the module-level configuration object *)

resetExtra ==
  [ tokens |-> "null", range |-> FALSE, loc |-> FALSE, comment |-> FALSE,
    comments |-> "[]", tolerant |-> FALSE, errors |-> "[]", strict |-> FALSE,
    ecmaFeatures |-> [jsx |-> Undef], useJSXTextNode |-> FALSE,
    log |-> "console.log", project |-> <<>>,
    \* properties resetExtra leaves absent
    source |-> Undef, errorOnUnknownASTType |-> Undef, code |-> Undef ]

\* parser.js:25  extra before the first call: no object at all
UnsetExtra == [resetExtra EXCEPT !.log = Undef, !.comments = Undef, !.errors = Undef]

\* options.project.some(...): one string among the elements is enough
SomeString(items) == \E i \in 1..Len(items) : items[i].type = "string"

\* parser.js:117  options.project.every(projectPath => typeof projectPath === 'string')
AllStrings(items) == \A i \in 1..Len(items) : items[i].type = "string"

\* the call without resetExtra(): extra as the call before left it
StaleExtra == extra

\* parser.js:66  generateAST starts with resetExtra()
ExtraAtEntry == resetExtra

\* the option taken as the boolean options are
ErrorOnUnknownBoolean(options, before) ==
  IF IsTrue(options.errorOnUnknownASTType) THEN "true" ELSE before

\* parser.js:92-98
ErrorOnUnknownASTType(options, before) ==
  IF Truthy(options.errorOnUnknownASTType) THEN "true" ELSE before

\* parser.js:66-121  resetExtra() and the copy of the options into extra;
\* options.tolerant only assigns extra.errors the empty list it already is
ExtraFromOptions(options) ==
  IF ~options.isDefined THEN ExtraAtEntry
  ELSE
    [ ExtraAtEntry EXCEPT
        !.range  = IsTrue(options.range),
        !.loc    = IsTrue(options.loc),
        !.source = IF IsTrue(options.loc) /\ options.source \notin {"null", Undef}
                   THEN options.source ELSE @,
        !.tokens = IF IsTrue(options.tokens) THEN "[]" ELSE @,
        !.comment = IF IsTrue(options.comment) THEN TRUE ELSE @,
        !.comments = IF IsTrue(options.comment) THEN "[]" ELSE @,
        !.errors = IF IsTrue(options.tolerant) THEN "[]" ELSE @,
        !.ecmaFeatures = IF options.ecmaFeatures.type = "object"
                         THEN [jsx |-> options.ecmaFeatures.jsx] ELSE @,
        !.errorOnUnknownASTType = ErrorOnUnknownASTType(options, @),
        !.useJSXTextNode = IF IsTrue(options.useJSXTextNode) THEN TRUE ELSE @,
        !.log = IF options.loggerFn \in {"function", "reentrant", "throws"}
                  THEN options.loggerFn
                ELSE IF options.loggerFn = "false" THEN "Function.prototype"
                ELSE @,
        !.project = IF options.project.type = "string"
                      THEN <<options.project.items[1].value>>
                    ELSE IF options.project.type = "array"
                            /\ AllStrings(options.project.items)
                      THEN [i \in 1..Len(options.project.items) |->
                              options.project.items[i].value]
                    ELSE @ ]

\* parser.js:123  the version warning is due
WarningDue == ~supportedVersion /\ ~warnedAboutTSVersion

----------------------------------------------------------------------------
(* The compiler front end: programs and native trees *)

\* the absent program (undefined)
NoProgram == [path |-> "none", born |-> 0, hash |-> 0, files |-> {},
              jsx |-> Undef, noResolve |-> FALSE]

\* the native node kinds the front end produces for a source text, in the
\* order of a depth-first walk
KindsOf(text) ==
  IF text = "const x: number[] = [1, 2, 3];"
    THEN <<"SourceFile", "VariableStatement", "Identifier", "NumericLiteral">>
  ELSE IF text = "export abstract class A {}"
    THEN <<"SourceFile", "ClassDeclaration", "ExportKeyword", "FutureSyntax">>
  ELSE <<"SourceFile", "ExpressionStatement", "NumericLiteral">>

\* the absent native tree (undefined)
NoTree == [defined |-> FALSE, owner |-> NoProgram, fileName |-> "none",
           text |-> "none", kinds |-> <<>>]

\* ts.createSourceFile(filename, code, ...) for a program
SourceFileOf(program, fileName, text) ==
  [defined |-> TRUE, owner |-> program, fileName |-> fileName, text |-> text,
   kinds |-> KindsOf(text)]

\* program.getSourceFile(fileName): the program's tree for the file, or undefined
getSourceFile(program, fileName, text) ==
  IF fileName \in program.files THEN SourceFileOf(program, fileName, text)
  ELSE NoTree

\* the identity of the i-th native node of a tree
NativeNode(tree, i) == [owner |-> tree.owner.path, born |-> tree.owner.born,
                        fileName |-> tree.fileName, index |-> i]

----------------------------------------------------------------------------
(* The project resolution engine (lib/tsconfig-parser) *)

\* the content hash of a configuration file
Hash(content) == IF content = "v1" THEN 11
                 ELSE IF content = "v2" THEN 22
                 ELSE IF content = "malformed" THEN 33
                 ELSE 0

\* the file list a configuration resolves to
ProjectFiles(path, content) ==
  IF path = "./tsconfig.json"
    THEN (IF content = "v1" THEN {"isolated-file.src.ts"}
          ELSE {"isolated-file.src.ts", "import-file.src.ts"})
  ELSE IF path = "./lib/tsconfig.json"
    THEN (IF content = "v1" THEN {"isolated-file.src.ts", "import-file.src.ts"}
          ELSE {"import-file.src.ts"})
  ELSE {}

\* the cache entries kept for a configuration path
EntriesFor(cache, path) == {e \in cache : e.path = path}

\* the new entry added, the old one kept
AddEntry(cache, path, hash, program) ==
  cache \cup {[path |-> path, hash |-> hash, program |-> program]}

\* replace the cache entry of a configuration path
ReplaceEntry(cache, path, hash, program) ==
  (cache \ EntriesFor(cache, path))
    \cup {[path |-> path, hash |-> hash, program |-> program]}

\* a request that reuses the cached program whatever the content hash is
ResolveProgramAnyHash(cache, path, content, callNo) ==
  IF content \in {"missing", "directory"}
    THEN [threw |-> TRUE, error |-> IF content = "missing" THEN "ProjectNotFound"
                                    ELSE "ProjectReadFailure",
          program |-> NoProgram, cache |-> cache]
  ELSE IF EntriesFor(cache, path) # {}
    THEN [threw |-> FALSE, error |-> "none",
          program |-> (CHOOSE e \in EntriesFor(cache, path) : TRUE).program,
          cache |-> cache]
  ELSE IF content = "malformed"
    THEN [threw |-> TRUE, error |-> "ProjectMalformed", program |-> NoProgram,
          cache |-> cache]
  ELSE
    LET fresh == [path |-> path, born |-> callNo, hash |-> Hash(content),
                  files |-> ProjectFiles(path, content), jsx |-> Undef,
                  noResolve |-> FALSE]
    IN [threw |-> FALSE, error |-> "none", program |-> fresh,
        cache |-> cache \cup {[path |-> path, hash |-> Hash(content),
                               program |-> fresh]}]

\* one resolution request: the program of one configuration path
ResolveProgram(cache, path, content, callNo) ==
  IF content = "missing"
    THEN [threw |-> TRUE, error |-> "ProjectNotFound", program |-> NoProgram,
          cache |-> cache]
  ELSE IF content = "directory"
    THEN [threw |-> TRUE, error |-> "ProjectReadFailure", program |-> NoProgram,
          cache |-> cache]
  ELSE
    LET hits == {e \in EntriesFor(cache, path) : e.hash = Hash(content)} IN
    IF hits # {}
      THEN [threw |-> FALSE, error |-> "none",
            program |-> (CHOOSE e \in hits : TRUE).program, cache |-> cache]
    ELSE IF content = "malformed"
      THEN [threw |-> TRUE, error |-> "ProjectMalformed", program |-> NoProgram,
            cache |-> cache]
    ELSE
      LET fresh == [path |-> path, born |-> callNo, hash |-> Hash(content),
                    files |-> ProjectFiles(path, content), jsx |-> Undef,
                    noResolve |-> FALSE]
      IN [threw |-> FALSE, error |-> "none", program |-> fresh,
          cache |-> ReplaceEntry(cache, path, Hash(content), fresh)]

\* the record of one resolution request
Request(content, r) == [hash |-> Hash(content), program |-> r.program]
NoRequest == [hash |-> 0, program |-> NoProgram]

\* remember a path's last two requests
Remember(reqs, path, req) ==
  [reqs EXCEPT ![path] = [prev |-> reqs[path].last, last |-> req]]

\* the lazily evaluated sequence of programs: configuration paths are taken
\* in list order from the i-th on, until one yields a program with the file
RECURSIVE calculateProjectParserOptions(_, _, _, _, _, _)
calculateProjectParserOptions(i, paths, filePath, callNo, fs, st) ==
  IF i > Len(paths)
    THEN [threw |-> FALSE, error |-> "none", programs |-> <<>>,
          cache |-> st.cache, consulted |-> st.consulted, reqs |-> st.reqs]
  ELSE
    LET path == paths[i]
        r    == ResolveProgram(st.cache, path, fs[path], callNo)
        next == [cache |-> r.cache,
                 consulted |-> Append(st.consulted,
                                 [path |-> path, content |-> fs[path],
                                  program |-> r.program]),
                 reqs |-> Remember(st.reqs, path, Request(fs[path], r))]
    IN IF r.threw
         THEN [threw |-> TRUE, error |-> r.error, programs |-> <<>>,
               cache |-> next.cache, consulted |-> next.consulted,
               reqs |-> next.reqs]
       ELSE IF filePath \in r.program.files
         THEN [threw |-> FALSE, error |-> "none", programs |-> <<r.program>>,
               cache |-> next.cache, consulted |-> next.consulted,
               reqs |-> next.reqs]
       ELSE calculateProjectParserOptions(i + 1, paths, filePath, callNo, fs, next)

----------------------------------------------------------------------------
(* The conversion engine (lib/ast-converter) and its registry *)

\* the generic node type a known native kind converts to
GenericType(kind) ==
  IF kind = "SourceFile" THEN "Program"
  ELSE IF kind = "VariableStatement" THEN "VariableDeclaration"
  ELSE IF kind = "NumericLiteral" THEN "Literal"
  ELSE kind

KnownKinds == {"SourceFile", "VariableStatement", "Identifier", "NumericLiteral",
               "ClassDeclaration", "ExpressionStatement"}

\* kinds converted to a generic node that exists for the tree's shape only
SyntheticKinds == {"ExportKeyword"}

IsUnknownKind(kind) == kind \notin KnownKinds \cup SyntheticKinds

\* the generic node built for the i-th native node in call callNo
GenericNode(tree, i, ex, callNo) ==
  LET kind == tree.kinds[i] IN
  [ id |-> [call |-> callNo, index |-> i],
    type |-> IF kind \in KnownKinds THEN GenericType(kind)
             ELSE IF kind \in SyntheticKinds THEN "ExportNamedDeclaration"
             ELSE kind,
    passthrough |-> IsUnknownKind(kind),
    synthetic |-> kind \in SyntheticKinds,
    hasRange |-> ex.range,
    hasLoc |-> ex.loc ]

\* a Map that is undefined, a Map with no entry
NoMap    == [defined |-> FALSE, pairs |-> {}]
EmptyMap == [defined |-> TRUE, pairs |-> {}]

\* Map.prototype.set: a key has one value, the one set last
MapSet(map, key, value) ==
  [defined |-> TRUE,
   pairs |-> {p \in map.pairs : p[1] # key} \cup {<<key, value>>}]

\* Map.prototype.get: the values found for a key (none: not found)
MapGet(map, key) == {p[2] : p \in {q \in map.pairs : q[1] = key}}

MapKeys(map) == {p[1] : p \in map.pairs}

NoMaps == [esTreeNodeToTSNodeMap |-> NoMap, tsNodeToESTreeNodeMap |-> NoMap]

registerPair(maps, genericNode, nativeNode) ==
  [ esTreeNodeToTSNodeMap |->
      MapSet(maps.esTreeNodeToTSNodeMap, genericNode, nativeNode),
    tsNodeToESTreeNodeMap |->
      MapSet(maps.tsNodeToESTreeNodeMap, nativeNode, genericNode) ]

\* the registry after the walk has passed the first i native nodes
RECURSIVE Registry(_, _, _, _)
Registry(tree, i, ex, callNo) ==
  IF i = 0
    THEN [esTreeNodeToTSNodeMap |-> EmptyMap, tsNodeToESTreeNodeMap |-> EmptyMap]
  ELSE
    LET before == Registry(tree, i - 1, ex, callNo) IN
    IF tree.kinds[i] \in SyntheticKinds THEN before
    ELSE registerPair(before, GenericNode(tree, i, ex, callNo).id,
                      NativeNode(tree, i))

\* the absent generic tree
NoESTree == [defined |-> FALSE, nodes |-> <<>>, tokens |-> "omitted",
             comments |-> "omitted"]

\* convert(ast, extra)
convert(tree, ex, callNo) ==
  IF Truthy(ex.errorOnUnknownASTType)
     /\ \E i \in 1..Len(tree.kinds) : IsUnknownKind(tree.kinds[i])
    THEN [threw |-> TRUE, error |-> "UnsupportedNodeKind", estree |-> NoESTree,
          astMaps |-> NoMaps]
  ELSE
    [ threw |-> FALSE, error |-> "none",
      estree |-> [ defined |-> TRUE,
                   nodes |-> [i \in 1..Len(tree.kinds) |->
                                GenericNode(tree, i, ex, callNo)],
                   tokens |-> IF ex.tokens = "null" THEN "omitted" ELSE "[...]",
                   comments |-> IF ex.comment THEN "[...]" ELSE "omitted" ],
      astMaps |-> Registry(tree, Len(tree.kinds), ex, callNo) ]

----------------------------------------------------------------------------
(* parser.js:138-226  generateAST, from the version warning on *)

\* services provided whatever the project list is
AlwaysProvide(ex) == TRUE

\* parser.js:140
shouldProvideParserServices(ex) == Len(ex.project) > 0

\* the loop without its assignment of relevantProgram
RECURSIVE ProgramLoopNoAssign(_, _, _, _)
ProgramLoopNoAssign(programs, i, FILENAME, code) ==
  IF i > Len(programs)
    THEN [ast |-> NoTree, relevantProgram |-> NoProgram]
  ELSE
    LET ast == getSourceFile(programs[i], FILENAME, code) IN
    IF ast.defined THEN [ast |-> ast, relevantProgram |-> NoProgram]
    ELSE ProgramLoopNoAssign(programs, i + 1, FILENAME, code)

\* parser.js:149-156  the first program that has the file, and its tree
RECURSIVE ProgramLoop(_, _, _, _)
ProgramLoop(programs, i, FILENAME, code) ==
  IF i > Len(programs)
    THEN [ast |-> NoTree, relevantProgram |-> NoProgram]
  ELSE
    LET ast == getSourceFile(programs[i], FILENAME, code) IN
    IF ast.defined THEN [ast |-> ast, relevantProgram |-> programs[i]]
    ELSE ProgramLoop(programs, i + 1, FILENAME, code)

\* the file name chosen as the boolean options are: jsx must be the boolean true
ShimFileNameStrict(ex) ==
  IF IsTrue(ex.ecmaFeatures.jsx) THEN "estree.tsx" ELSE "estree.ts"

\* parser.js:162
ShimFileName(ex) == IF Truthy(ex.ecmaFeatures.jsx) THEN "estree.tsx" ELSE "estree.ts"

\* parser.js:204-212  ts.createProgram([FILENAME], {noResolve, target, jsx}, compilerHost)
ShimProgram(ex, callNo) ==
  [ path |-> "<shim>", born |-> callNo, hash |-> 0, files |-> {ShimFileName(ex)},
    jsx |-> IF Truthy(ex.ecmaFeatures.jsx) THEN "Preserve" ELSE Undef,
    noResolve |-> TRUE ]

\* what a generateAST call leaves behind when it throws
Thrown(error, ex, cache, reqs, consulted, usedShim, tree, convertCalled) ==
  [ threw |-> TRUE, error |-> error, estree |-> NoESTree, program |-> NoProgram,
    astMaps |-> NoMaps, extra |-> ex, cache |-> cache, reqs |-> reqs,
    consulted |-> consulted, usedShim |-> usedShim,
    convertCalled |-> convertCalled, tree |-> tree, registry |-> NoMaps ]

\* the engine's error caught and dropped
ResolutionSwallowed(res) == FALSE

\* parser.js:144-148  the call is in no try block: what the engine throws,
\* generateAST throws
ResolutionThrows(res) == res.threw

\* parser.js:221-224  the program and the maps generateAST returns
ReturnedProgram(should, relevantProgram) ==
  IF should THEN relevantProgram ELSE NoProgram

ReturnedMaps(should, astMaps) == IF should THEN astMaps ELSE NoMaps

\* parser.js:218-225  convert has run: what the call returns, or throws
AfterConvert(conv, found, usedShim, should, res, context) ==
  IF conv.threw
    THEN Thrown(conv.error, context, res.cache, res.reqs, res.consulted,
                usedShim, found.ast, TRUE)
  ELSE
    [ threw |-> FALSE, error |-> "none", estree |-> conv.estree,
      program |-> ReturnedProgram(should, found.relevantProgram),
      astMaps |-> ReturnedMaps(should, conv.astMaps),
      extra |-> context, cache |-> res.cache, reqs |-> res.reqs,
      consulted |-> res.consulted, usedShim |-> usedShim,
      convertCalled |-> TRUE, tree |-> found.ast, registry |-> conv.astMaps ]

\* the program created a second time for the value returned
ShimTwice(code, ex, callNo) ==
  [ ast |-> getSourceFile(ShimProgram(ex, callNo), ShimFileName(ex), code),
    relevantProgram |-> [ShimProgram(ex, callNo) EXCEPT !.born = 0] ]

\* parser.js:159-215  no program has the file: the shim's program and its tree
Shim(code, ex, callNo) ==
  [ ast |-> getSourceFile(ShimProgram(ex, callNo), ShimFileName(ex), code),
    relevantProgram |-> ShimProgram(ex, callNo) ]

\* parser.js:217-218  extra.code = code; convert(ast, extra)
ConvertTree(found, usedShim, should, res, context, callNo) ==
  AfterConvert(convert(found.ast, context, callNo), found, usedShim, should, res,
               context)

\* parser.js:159-218  the loop has ended with found.ast defined or undefined
AfterLoop(found, code, ex, callNo, should, res) ==
  ConvertTree(IF found.ast.defined THEN found ELSE Shim(code, ex, callNo),
              ~found.ast.defined, should, res, [ex EXCEPT !.code = code], callNo)

\* parser.js:144-218  the engine has been called
AfterResolution(res, code, options, ex, callNo, should) ==
  IF ResolutionThrows(res)
    THEN Thrown(res.error, ex, res.cache, res.reqs, res.consulted, FALSE, NoTree,
                FALSE)
  ELSE AfterLoop(ProgramLoop(res.programs, 1, options.filePath, code),
                 code, ex, callNo, should, res)

\* parser.js:142-148  the programs of the project list, none without a list
Programs(should, options, ex, callNo, cache, fs, reqs) ==
  IF should
    THEN calculateProjectParserOptions(1, ex.project, options.filePath, callNo, fs,
           [cache |-> cache, consulted |-> <<>>, reqs |-> reqs])
    ELSE [threw |-> FALSE, error |-> "none", programs |-> <<>>,
          cache |-> cache, consulted |-> <<>>, reqs |-> reqs]

\* parser.js:138-226 for the call with arguments code and options, reading
\* the module-level extra as ex
generateAST(code, options, ex, callNo, cache, fs, reqs) ==
  IF shouldProvideParserServices(ex) /\ ~options.isDefined
    \* parser.js:143  options.filePath of undefined
    THEN Thrown("TypeError", ex, cache, reqs, <<>>, FALSE, NoTree, FALSE)
  ELSE AfterResolution(
         Programs(shouldProvideParserServices(ex), options, ex, callNo, cache, fs,
                  reqs),
         code, options, ex, callNo, shouldProvideParserServices(ex))

\* parse with the two maps taken for one another
ParseServicesSwapped(g) ==
  [ program |-> g.program,
    esTreeNodeToTSNodeMap |-> g.astMaps.tsNodeToESTreeNodeMap,
    tsNodeToESTreeNodeMap |-> g.astMaps.esTreeNodeToTSNodeMap ]

\* parser.js:234-244  what parse returns for generateAST's result
ParseServices(g) ==
  [ program |-> g.program,
    esTreeNodeToTSNodeMap |-> g.astMaps.esTreeNodeToTSNodeMap,
    tsNodeToESTreeNodeMap |-> g.astMaps.tsNodeToESTreeNodeMap ]

\* the outcome of a finished parse call, with what the call did
Outcome(g, code, options, callNo, depth, overlapped) ==
  [ status |-> IF g.threw THEN "threw" ELSE "returned",
    error |-> g.error,
    ast |-> g.estree,
    services |-> ParseServices(g),
    \* the call
    call |-> callNo, code |-> code, options |-> options,
    depth |-> depth, overlapped |-> overlapped,
    \* what the call did
    consulted |-> g.consulted, usedShim |-> g.usedShim,
    convertCalled |-> g.convertCalled, context |-> g.extra, tree |-> g.tree,
    registry |-> g.registry ]

NoOutcome ==
  [ status |-> "none", error |-> "none", ast |-> NoESTree,
    services |-> [program |-> NoProgram, esTreeNodeToTSNodeMap |-> NoMap,
                  tsNodeToESTreeNodeMap |-> NoMap],
    call |-> 0, code |-> "none", options |-> NoOptions, depth |-> 0,
    overlapped |-> FALSE, consulted |-> <<>>, usedShim |-> FALSE,
    convertCalled |-> FALSE, context |-> UnsetExtra, tree |-> NoTree,
    registry |-> NoMaps ]

----------------------------------------------------------------------------
(* The state machine *)

InitialConfigFiles ==
  [p \in ConfigPaths |->
     IF p \in {"./tsconfig.json", "./lib/tsconfig.json"} THEN "v1"
     ELSE IF p = "./tsconfigs.json" THEN "missing"
     ELSE IF p = "." THEN "directory"
     ELSE "malformed"]

\* what an edit can make of a configuration file
Contents(path) ==
  IF path = "./tsconfig.json" THEN {"v1", "v2", "malformed"}
  ELSE IF path = "./lib/tsconfig.json" THEN {"v1", "v2"}
  ELSE {}

Init ==
  /\ extra = UnsetExtra
  /\ warnedAboutTSVersion = FALSE
  /\ supportedVersion \in BOOLEAN
  /\ knownPrograms = {}
  /\ configFiles = InitialConfigFiles
  /\ callCount = 0
  /\ stack = <<>>
  /\ result = NoOutcome
  /\ logged = <<>>
  /\ requests = [p \in ConfigPaths |-> [prev |-> NoRequest, last |-> NoRequest]]
  /\ kept = NoOutcome
  /\ fixturesRequiringSourceTypeModule = <<>>
  /\ fixturePatternConfigsToTest = <<>>
  /\ fixturesToTest = <<>>
  /\ loading = "array"
  /\ created = <<>>

\* the call ends: what generateAST leaves in the module and parse hands back
Complete(g, code, options, callNo, depth, overlapped) ==
  /\ extra' = g.extra
  /\ knownPrograms' = g.cache
  /\ requests' = g.reqs
  /\ result' = Outcome(g, code, options, callNo, depth, overlapped)

\* parse(code, options) run from its first line to its return or throw
\* (the logger, when called, returns, and without calling parse)
Parse(code, options) ==
  /\ callCount < MaxCalls
  /\ ~(WarningDue /\ options.loggerFn \in {"reentrant", "throws"})
  /\ Complete(generateAST(toString(code), options, ExtraFromOptions(options),
                          callCount + 1, knownPrograms, configFiles, requests),
              toString(code), options, callCount + 1, Len(stack) + 1, FALSE)
  /\ logged' = IF WarningDue
                 THEN Append(logged, [call |-> callCount + 1,
                                      log |-> ExtraFromOptions(options).log])
                 ELSE logged
  /\ callCount' = callCount + 1
  /\ warnedAboutTSVersion' = (warnedAboutTSVersion \/ ~supportedVersion)
  /\ UNCHANGED <<supportedVersion, configFiles, stack, kept, fixtureVars>>

\* parser.js:59-134  parse(code, options) up to the call of a logger that
\* itself calls parse (and catches what that call throws)
ParseEnter(code, options) ==
  /\ callCount < MaxCalls
  /\ Len(stack) + 1 < MaxDepth
  /\ WarningDue
  /\ options.loggerFn = "reentrant"
  /\ extra' = ExtraFromOptions(options)
  /\ logged' = Append(logged, [call |-> callCount + 1, log |-> "reentrant"])
  /\ stack' = Append(stack, [code |-> toString(code), options |-> options,
                             call |-> callCount + 1])
  /\ callCount' = callCount + 1
  /\ UNCHANGED <<warnedAboutTSVersion, supportedVersion, knownPrograms,
                 configFiles, result, requests, kept, fixtureVars>>

\* parser.js:59-133  parse(code, options) whose logger throws when it is
\* handed the warning: the error leaves parse before parser.js:134
ParseLogThrows(code, options) ==
  /\ callCount < MaxCalls
  /\ WarningDue
  /\ options.loggerFn = "throws"
  /\ extra' = ExtraFromOptions(options)
  /\ logged' = Append(logged, [call |-> callCount + 1, log |-> "throws"])
  /\ result' = Outcome(Thrown("LoggerError", ExtraFromOptions(options),
                              knownPrograms, requests, <<>>, FALSE, NoTree, FALSE),
                       toString(code), options, callCount + 1, Len(stack) + 1,
                       FALSE)
  /\ callCount' = callCount + 1
  /\ UNCHANGED <<warnedAboutTSVersion, supportedVersion, knownPrograms,
                 configFiles, stack, requests, kept, fixtureVars>>

\* the suspended call f goes on reading the module's extra as it is now
Resume(f) ==
  Complete(generateAST(f.code, f.options, extra, f.call, knownPrograms,
                       configFiles, requests),
           f.code, f.options, f.call, Len(stack), callCount > f.call)

\* parser.js:135-226  the logger has returned: the suspended call goes on
ParseResume ==
  /\ stack # <<>>
  /\ Resume(stack[Len(stack)])
  /\ warnedAboutTSVersion' = TRUE
  /\ stack' = SubSeq(stack, 1, Len(stack) - 1)
  /\ UNCHANGED <<supportedVersion, configFiles, callCount, logged, kept,
                 fixtureVars>>

\* the user edits a configuration file between two calls
EditConfig(path, content) ==
  /\ stack = <<>>
  /\ content \in Contents(path)
  /\ content # configFiles[path]
  /\ configFiles' = [configFiles EXCEPT ![path] = content]
  /\ UNCHANGED <<extra, warnedAboutTSVersion, supportedVersion, knownPrograms,
                 callCount, stack, result, logged, requests, kept, fixtureVars>>

----------------------------------------------------------------------------
(* The calls made *)

\* the caller keeps what the call that finished last returned or threw
Keep ==
  /\ stack = <<>>
  /\ result.status # "none"
  /\ kept # result
  /\ kept' = result
  /\ UNCHANGED <<extra, warnedAboutTSVersion, supportedVersion, knownPrograms,
                 configFiles, callCount, stack, result, logged, requests,
                 fixtureVars>>

TS == "./tsconfig.json"
LIB == "./lib/tsconfig.json"

\* values of options.project that name no project: absent, not a string, an
\* empty list, a list with an element that is not a string
EmptyProjectValues ==
  { NoProject, ProjectNumber, ProjectArray(<<>>),
    ProjectArray(<<Str(TS), Num("42")>>) }

\* values of options.project that name projects: one path, lists of paths
ProjectValues ==
  { ProjectString(TS), ProjectString(LIB), ProjectString("./tsconfigs.json"),
    ProjectString("."), ProjectString("./badTSConfig/tsconfig.json"),
    ProjectArray(<<Str(TS), Str(LIB)>>),
    ProjectArray(<<Str(LIB), Str(TS)>>),
    ProjectArray(<<Str(TS), Str("./tsconfigs.json")>>) }

\* calls that differ in the project and the file
ProjectOptions ==
  { [EmptyOptions EXCEPT !.project = p, !.filePath = f] :
      p \in ProjectValues, f \in Files }
  \cup
  { [EmptyOptions EXCEPT !.project = p, !.filePath = "isolated-file.src.ts"] :
      p \in EmptyProjectValues }

\* a call with every setting on, as the tests' createOptions makes them
AllOn ==
  [ isDefined |-> TRUE, range |-> "true", loc |-> "true", source |-> "file.ts",
    tokens |-> "true", comment |-> "true", tolerant |-> "true",
    ecmaFeatures |-> Features("true"), errorOnUnknownASTType |-> "yes",
    useJSXTextNode |-> "true", loggerFn |-> "function",
    project |-> ProjectString(TS), filePath |-> "isolated-file.src.ts" ]

\* calls that differ in one setting of the conversion context
ContextOptions ==
  { NoOptions, EmptyOptions, AllOn,
    [EmptyOptions EXCEPT !.range = "true"],
    [EmptyOptions EXCEPT !.range = "yes"],
    [EmptyOptions EXCEPT !.loc = "true", !.source = "file.ts"],
    [EmptyOptions EXCEPT !.source = "file.ts"],
    [EmptyOptions EXCEPT !.tokens = "true"],
    [EmptyOptions EXCEPT !.comment = "true"],
    [EmptyOptions EXCEPT !.tolerant = "true"],
    [EmptyOptions EXCEPT !.ecmaFeatures = Features("true")],
    [EmptyOptions EXCEPT !.errorOnUnknownASTType = "yes"],
    [EmptyOptions EXCEPT !.useJSXTextNode = "true"],
    [EmptyOptions EXCEPT !.loggerFn = "function"],
    [EmptyOptions EXCEPT !.loggerFn = "false"],
    [EmptyOptions EXCEPT !.project = ProjectString(TS),
                         !.filePath = "isolated-file.src.ts"] }

\* calls whose logger calls parse again
ReentrantOptions ==
  { [o EXCEPT !.loggerFn = "reentrant"] : o \in ContextOptions \ {NoOptions} }

\* calls with project configurations follow one another, and the
\* configuration files are edited between them
Next ==
  \/ \E code \in ProjectCodes, options \in ProjectOptions \cup {NoOptions} :
       Parse(code, options)
  \/ \E path \in ConfigPaths, content \in {"v1", "v2", "malformed"} :
       EditConfig(path, content)

Spec == Init /\ [][Next]_vars

\* calls with different settings follow one another
NextContext ==
  \E code \in Codes, options \in ContextOptions : Parse(code, options)

SpecContext == Init /\ [][NextContext]_vars

\* a call can also be made from the logger of a call in progress
NextReentrant ==
  \/ \E code \in Codes, options \in ContextOptions : Parse(code, options)
  \/ \E code \in Codes, options \in ReentrantOptions : ParseEnter(code, options)
  \/ ParseResume

SpecReentrant == Init /\ [][NextReentrant]_vars

\* values a caller can give a boolean option: absent, the two booleans, a
\* truthy value that is no boolean (1, 'true', {}), null
OptionValues == {Undef, "true", "false", "yes", "null"}

\* values of options.source: absent, null, the empty string, a file name
SourceValues == {Undef, "null", "", "file.ts"}

\* calls that differ in the value of one boolean option, in loc and source,
\* or give all five options the same value
BooleanOptions ==
  { [EmptyOptions EXCEPT !.range = v] : v \in OptionValues }
  \cup { [EmptyOptions EXCEPT !.tokens = v] : v \in OptionValues }
  \cup { [EmptyOptions EXCEPT !.comment = v] : v \in OptionValues }
  \cup { [EmptyOptions EXCEPT !.useJSXTextNode = v] : v \in OptionValues }
  \cup { [EmptyOptions EXCEPT !.loc = v, !.source = s] :
           v \in OptionValues, s \in SourceValues }
  \cup { [EmptyOptions EXCEPT !.range = v, !.loc = v, !.tokens = v,
                              !.comment = v, !.useJSXTextNode = v,
                              !.source = "file.ts"] : v \in OptionValues }
  \cup { NoOptions }

\* calls with boolean options of every kind of value follow one another
NextBoolean ==
  \E code \in Codes, options \in BooleanOptions : Parse(code, options)

SpecBoolean == Init /\ [][NextBoolean]_vars

\* values of options.ecmaFeatures.jsx: absent, booleans, a truthy value that
\* is no boolean, null, the empty string
JsxValues == {Undef, "true", "false", "yes", "null", ""}

\* values of options.ecmaFeatures
FeaturesValues ==
  {NoFeatures, NullFeatures, StringFeatures} \cup {Features(v) : v \in JsxValues}

\* calls that differ in ecmaFeatures, made without a project, with a project
\* that has the file and with a project that does not have it
DialectOptions ==
  { [EmptyOptions EXCEPT !.ecmaFeatures = e] : e \in FeaturesValues }
  \cup
  { [EmptyOptions EXCEPT !.ecmaFeatures = e, !.project = ProjectString(TS),
                         !.filePath = f] :
      e \in FeaturesValues, f \in {"isolated-file.src.ts", "other.src.ts"} }
  \cup { NoOptions }

NextDialect ==
  \E code \in Codes, options \in DialectOptions : Parse(code, options)

SpecDialect == Init /\ [][NextDialect]_vars

\* calls that differ in options.loggerFn: absent, a function, false, a value
\* that is neither (the default logger stays), a function that throws
LoggerOptions ==
  { [EmptyOptions EXCEPT !.loggerFn = l] :
      l \in {Undef, "function", "false", "yes", "throws"} }
  \cup { NoOptions }

\* calls with different loggers follow one another; a logger can throw
NextLogger ==
  \/ \E code \in Codes, options \in LoggerOptions : Parse(code, options)
  \/ \E code \in Codes, options \in LoggerOptions : ParseLogThrows(code, options)

SpecLogger == Init /\ [][NextLogger]_vars

\* calls that differ in what the generic tree shows of the context, in the
\* project and in the file
RepeatedOptions ==
  { NoOptions, EmptyOptions, AllOn,
    [EmptyOptions EXCEPT !.range = "true"],
    [EmptyOptions EXCEPT !.loc = "true"],
    [EmptyOptions EXCEPT !.tokens = "true"],
    [EmptyOptions EXCEPT !.comment = "true"],
    [EmptyOptions EXCEPT !.errorOnUnknownASTType = "yes"],
    [EmptyOptions EXCEPT !.project = ProjectString(TS),
                         !.filePath = "isolated-file.src.ts"],
    [EmptyOptions EXCEPT !.project = ProjectString(TS),
                         !.filePath = "other.src.ts"] }

\* calls follow one another and the caller keeps the result of some of them
NextRepeated ==
  \/ \E code \in Codes, options \in RepeatedOptions : Parse(code, options)
  \/ Keep

SpecRepeated == Init /\ [][NextRepeated]_vars

----------------------------------------------------------------------------
(* tests/ast-alignment/fixtures-to-test.ts  the fixtures of the alignment tests *)

\* an array argument left out, an array argument given
AbsentList == [isDefined |-> FALSE, items |-> <<>>]
List(items) == [isDefined |-> TRUE, items |-> items]

\* the config argument left out: createFixturePatternConfigFor('basics')
NoConfig == [isDefined |-> FALSE, ignore |-> AbsentList, fileType |-> Undef,
             parseWithSourceTypeModule |-> AbsentList]

Config(ignore, fileType, parseWithSourceTypeModule) ==
  [isDefined |-> TRUE, ignore |-> ignore, fileType |-> fileType,
   parseWithSourceTypeModule |-> parseWithSourceTypeModule]

\* fixtures-to-test.ts:67, 69  config.ignore || [], config.parseWithSourceTypeModule || []
OrEmpty(list) == IF list.isDefined THEN list.items ELSE <<>>

\* fixtures-to-test.ts:68  config.fileType || 'js'
OrJs(fileType) == IF Truthy(fileType) THEN fileType ELSE "js"

\* Array.prototype.join
RECURSIVE join(_, _)
join(items, separator) ==
  IF Len(items) = 0 THEN ""
  ELSE IF Len(items) = 1 THEN items[1]
  ELSE items[1] \o separator \o join(Tail(items), separator)

\* the ignore list without the fixtures parsed as modules
IgnoreOnly(config) == OrEmpty(config.ignore)

\* fixtures-to-test.ts:67-84  the ignore list, with the fixtures that are
\* parsed as modules merged into it
IgnoreList(config) ==
  IF Len(OrEmpty(config.parseWithSourceTypeModule)) > 0
    THEN OrEmpty(config.ignore) \o OrEmpty(config.parseWithSourceTypeModule)
    ELSE OrEmpty(config.ignore)

\* a FixturePatternConfig that is undefined
NoPattern == [pattern |-> Undef, sourceType |-> Undef]

\* fixtures-to-test.ts:86-94  the pattern of one fixture parsed as a module
ModulePattern(fixturesSubPath, fixture, fileType) ==
  [ pattern |-> fixturesSubPath \o "/" \o fixture \o ".src." \o fileType,
    sourceType |-> "module" ]

\* fixtures-to-test.ts:85-95  the patterns the loop pushes, in list order
ModulePatterns(fixturesSubPath, config) ==
  [ i \in 1..Len(OrEmpty(config.parseWithSourceTypeModule)) |->
      ModulePattern(fixturesSubPath, OrEmpty(config.parseWithSourceTypeModule)[i],
                    OrJs(config.fileType)) ]

\* fixtures-to-test.ts:97-101  the glob pattern of a directory but for a list
\* of its fixtures; it has no config
BasePattern(fixturesSubPath, ignore, fileType) ==
  [ pattern |-> fixturesSubPath \o "/!(" \o join(ignore, "|") \o ").src."
                  \o fileType,
    sourceType |-> Undef ]

\* fixtures-to-test.ts:57-102  the call's value, or its throw, and the global
\* array as the call leaves it
createFixturePatternConfigFor(fixturesSubPath, config, requiring) ==
  IF ~Truthy(fixturesSubPath)
    THEN [threw |-> TRUE, value |-> NoPattern, requiring |-> requiring]
  ELSE [threw |-> FALSE,
        value |-> BasePattern(fixturesSubPath, IgnoreList(config),
                              OrJs(config.fileType)),
        requiring |-> requiring \o ModulePatterns(fixturesSubPath, config)]

\* fixtures-to-test.ts:543  path.join(__dirname, '../fixtures')
fixturesDirPath == "fixtures"

\* the fixtures a directory of fixtures/ holds, in the order glob reports them
FixtureNames == {"error-strict", "export-default-array", "import-default"}

FilesIn(dir) ==
  << [dir |-> dir, name |-> "error-strict", fileType |-> "js"],
     [dir |-> dir, name |-> "error-strict", fileType |-> "ts"],
     [dir |-> dir, name |-> "export-default-array", fileType |-> "js"],
     [dir |-> dir, name |-> "export-default-array", fileType |-> "ts"],
     [dir |-> dir, name |-> "import-default", fileType |-> "js"],
     [dir |-> dir, name |-> "import-default", fileType |-> "ts"] >>

\* the directories of fixtures/ and their files
FixtureDirs == {"basics", "javascript/modules", "typescript/basics"}

FixtureFiles ==
  FilesIn("basics") \o FilesIn("javascript/modules") \o FilesIn("typescript/basics")

\* the path of a fixture file within fixtures/
RelativePath(file) ==
  file.dir \o "/" \o file.name \o ".src." \o file.fileType

\* the config arguments of the calls: none, an ignore list (one that names a
\* fixture twice), a file type, fixtures parsed as modules with and without
\* an ignore list and a file type, empty lists
FixtureConfigs ==
  { NoConfig,
    Config(List(<<"error-strict", "error-strict">>), Undef, AbsentList),
    Config(AbsentList, "ts", AbsentList),
    Config(List(<<"error-strict">>), Undef,
           List(<<"export-default-array", "import-default">>)),
    Config(List(<<"import-default">>), "ts", List(<<"import-default">>)),
    Config(AbsentList, "", List(<<"export-default-array">>)),
    Config(List(<<>>), "tsx", List(<<>>)) }

\* the patterns of the form dir/!(a|b).src.ext that glob is given: the files
\* of dir with extension ext whose name is none of a, b
NegatedPatterns ==
  { [dir |-> d, except |-> l, fileType |-> t] :
      d \in FixtureDirs,
      l \in {OrEmpty(c.ignore) : c \in FixtureConfigs}
            \cup {OrEmpty(c.ignore) \o OrEmpty(c.parseWithSourceTypeModule) :
                    c \in FixtureConfigs},
      t \in {"js", "ts", "tsx"} }

\* the readings of a pattern as a negated pattern (none: a literal path)
Negated(pattern) ==
  { n \in NegatedPatterns :
      n.dir \o "/!(" \o join(n.except, "|") \o ").src." \o n.fileType = pattern }

\* glob's match of a file against a pattern read as the negated patterns ns
MatchesPattern(file, pattern, ns) ==
  \/ RelativePath(file) = pattern
  \/ \E n \in ns :
       /\ file.dir = n.dir
       /\ file.fileType = n.fileType
       /\ \A i \in 1..Len(n.except) : n.except[i] # file.name

\* the fixtures pushed for the matching files of one pattern
FixturesOf(matching, sourceType) ==
  [ k \in 1..Len(matching) |->
      [ filename |-> fixturesDirPath \o "/" \o RelativePath(matching[k]),
        sourceType |-> sourceType ] ]

\* fixtures-to-test.ts:552-555  glob.sync(`${fixturesDirPath}/${pattern}`, {})
globSync(pattern, ns) ==
  SelectSeq(FixtureFiles, LAMBDA file : MatchesPattern(file, pattern, ns))

\* fixtures-to-test.ts:548-562  the fixtures of the patterns from the i-th on
RECURSIVE ResolvePatterns(_, _)
ResolvePatterns(patterns, i) ==
  IF i > Len(patterns) THEN <<>>
  ELSE FixturesOf(globSync(patterns[i].pattern, Negated(patterns[i].pattern)),
                  patterns[i].sourceType)
         \o ResolvePatterns(patterns, i + 1)

\* the call and what it left: its value or its throw
Created(fixturesSubPath, config, c) ==
  [ fixturesSubPath |-> fixturesSubPath, config |-> config, threw |-> c.threw,
    value |-> c.value ]

\* what a call of createFixturePatternConfigFor leaves in the module
AfterCreate(fixturesSubPath, config, c) ==
  /\ fixturesRequiringSourceTypeModule' = c.requiring
  /\ fixturePatternConfigsToTest' =
       IF c.threw THEN fixturePatternConfigsToTest
       ELSE Append(fixturePatternConfigsToTest, c.value)
  /\ loading' = IF c.threw THEN "failed" ELSE "array"
  /\ created' = Append(created, Created(fixturesSubPath, config, c))

\* fixtures-to-test.ts:107-532  one element of the array literal: a call of
\* createFixturePatternConfigFor for a directory not listed before; a throw
\* ends the evaluation of the module
CreateFixturePatternConfig(fixturesSubPath, config) ==
  /\ loading = "array"
  /\ \A i \in 1..Len(created) : created[i].fixturesSubPath # fixturesSubPath
  /\ AfterCreate(fixturesSubPath, config,
                 createFixturePatternConfigFor(fixturesSubPath, config,
                                               fixturesRequiringSourceTypeModule))
  /\ UNCHANGED <<fixturesToTest, parserVars>>

\* fixtures-to-test.ts:537-540  the patterns of the fixtures parsed as
\* modules are added after the patterns of the array
AddModulePatterns ==
  /\ loading = "array"
  /\ fixturePatternConfigsToTest' =
       fixturePatternConfigsToTest \o fixturesRequiringSourceTypeModule
  /\ loading' = "patterns"
  /\ UNCHANGED <<fixturesRequiringSourceTypeModule, fixturesToTest, created,
                 parserVars>>

\* fixtures-to-test.ts:542-562  the patterns are resolved into fixture files
ResolveFixtures ==
  /\ loading = "patterns"
  /\ fixturesToTest' = ResolvePatterns(fixturePatternConfigsToTest, 1)
  /\ loading' = "resolved"
  /\ UNCHANGED <<fixturesRequiringSourceTypeModule, fixturePatternConfigsToTest,
                 created, parserVars>>

\* the module fixtures-to-test.ts is evaluated from top to bottom
NextFixtures ==
  \/ \E fixturesSubPath \in FixtureDirs \cup {""}, config \in FixtureConfigs :
       CreateFixturePatternConfig(fixturesSubPath, config)
  \/ AddModulePatterns
  \/ ResolveFixtures

SpecFixtures == Init /\ [][NextFixtures]_vars

----------------------------------------------------------------------------
(* Properties *)

\* a parse call has finished, by a return or by a throw
Finished == result.status # "none"
Returned == result.status = "returned"

ServicesUndefined ==
  /\ result.services.program = NoProgram
  /\ ~result.services.esTreeNodeToTSNodeMap.defined
  /\ ~result.services.tsNodeToESTreeNodeMap.defined

\* every configuration the call consulted was valid and none of the programs
\* has the file
NoProgramHasFile ==
  /\ Len(result.consulted) > 0
  /\ \A i \in 1..Len(result.consulted) :
       /\ result.consulted[i].program # NoProgram
       /\ result.options.filePath \notin result.consulted[i].program.files

\* C1: a call with valid project configurations of which none has the file
\* returns a generic tree built from the shim's native tree, with the program
\* and both node maps undefined
ProjectFallback ==
  (Finished /\ NoProgramHasFile) =>
     /\ Returned
     /\ result.ast.defined
     /\ result.usedShim
     /\ result.tree.owner.path = "<shim>"
     /\ ServicesUndefined

\* C2: in a call that provides the node maps, the two maps lead from every
\* registered generic node to its native node and back, and from every
\* registered native node to its generic node and back
RoundTrip ==
  (Returned /\ result.services.esTreeNodeToTSNodeMap.defined
            /\ result.services.tsNodeToESTreeNodeMap.defined) =>
    LET es == result.services.esTreeNodeToTSNodeMap
        ts == result.services.tsNodeToESTreeNodeMap
    IN /\ \A g \in MapKeys(result.registry.esTreeNodeToTSNodeMap) :
            \E n \in MapGet(es, g) : MapGet(es, g) = {n} /\ MapGet(ts, n) = {g}
       /\ \A n \in MapKeys(result.registry.tsNodeToESTreeNodeMap) :
            \E g \in MapGet(ts, n) : MapGet(ts, n) = {g} /\ MapGet(es, g) = {n}
       /\ \A i \in 1..Len(result.ast.nodes) :
            ~result.ast.nodes[i].synthetic =>
               MapGet(es, result.ast.nodes[i].id) = {NativeNode(result.tree, i)}

\* a call returned the maps for a tree that has registered nodes and a
\* synthetic node
RoundTripWitness ==
  /\ Returned
  /\ result.services.esTreeNodeToTSNodeMap.defined
  /\ Cardinality(result.services.esTreeNodeToTSNodeMap.pairs) >= 2
  /\ \E i \in 1..Len(result.ast.nodes) : result.ast.nodes[i].synthetic

\* the error the engine raises for a configuration path with this content
FailureOf(content) ==
  IF content = "missing" THEN "ProjectNotFound"
  ELSE IF content = "directory" THEN "ProjectReadFailure"
  ELSE "ProjectMalformed"

\* C3: when a consulted configuration path is missing, unreadable or
\* malformed, the call throws that error, returns nothing and neither uses
\* the shim nor converts
ResolutionFailureIsFatal ==
  Finished =>
    \A i \in 1..Len(result.consulted) :
      result.consulted[i].content \in {"missing", "directory", "malformed"} =>
        /\ i = Len(result.consulted)
        /\ result.status = "threw"
        /\ result.error = FailureOf(result.consulted[i].content)
        /\ ~result.ast.defined
        /\ ServicesUndefined
        /\ ~result.usedShim
        /\ ~result.convertCalled

\* a call failed on a configuration file that became malformed after its
\* program had been cached
ResolutionFailureWitness ==
  /\ result.error = "ProjectMalformed"
  /\ result.consulted[Len(result.consulted)].path = "./tsconfig.json"
  /\ EntriesFor(knownPrograms, "./tsconfig.json") # {}

\* C4: the configuration paths are consulted in list order, every path before
\* the last consulted one gave a program without the file, the program
\* returned is the one of the first path whose program has the file, and no
\* path after it is consulted
ResolutionOrder ==
  (Finished /\ Len(result.consulted) > 0) =>
    LET n == Len(result.consulted) IN
    /\ n <= Len(result.context.project)
    /\ \A i \in 1..n : result.consulted[i].path = result.context.project[i]
    /\ \A i \in 1..(n - 1) :
         /\ result.consulted[i].program # NoProgram
         /\ result.options.filePath \notin result.consulted[i].program.files
    /\ Returned =>
         IF result.options.filePath \in result.consulted[n].program.files
           THEN result.services.program = result.consulted[n].program
           ELSE n = Len(result.context.project)

\* a call returned the program of its first path and never looked at its
\* second path, which does not exist
ResolutionOrderWitness ==
  /\ Returned
  /\ result.context.project = <<"./tsconfig.json", "./tsconfigs.json">>
  /\ Len(result.consulted) = 1
  /\ result.services.program = result.consulted[1].program
  /\ result.services.program.path = "./tsconfig.json"

\* the call's options name no project: no options, no project option, or a
\* project option that is normalised to the empty list
NoProjectSupplied(options) ==
  \/ ~options.isDefined
  \/ options.project.type \in {"undefined", "number"}
  \/ /\ options.project.type = "array"
     /\ \/ options.project.items = <<>>
        \/ \E i \in 1..Len(options.project.items) :
             options.project.items[i].type # "string"

\* C5: a call without project configuration makes no resolution request,
\* converts the source file of a single-file no-resolution shim program made
\* from its code, and returns the program and both node maps undefined
NoProjectUsesShim ==
  (Finished /\ NoProjectSupplied(result.options)) =>
    /\ result.consulted = <<>>
    /\ result.usedShim
    /\ result.convertCalled
    /\ result.tree.defined
    /\ result.tree.owner.path = "<shim>"
    /\ result.tree.owner.noResolve
    /\ result.tree.owner.files = {result.tree.fileName}
    /\ result.tree.text = result.code
    /\ ServicesUndefined
    /\ Returned => result.ast.defined

\* a call whose project option is a list with a non-string element returned
NoProjectWitness ==
  /\ Returned
  /\ result.options.project.type = "array"
  /\ Len(result.options.project.items) = 2
  /\ result.usedShim
  /\ ServicesUndefined

\* the native tree the call converted has a node of an unrecognised kind
HasUnknownKind ==
  \E i \in 1..Len(result.tree.kinds) : IsUnknownKind(result.tree.kinds[i])

\* C6: a call fails with UnsupportedNodeKind only if its context has
\* errorOnUnknownASTType set, which it has exactly when the option is truthy,
\* and its tree has an unrecognised kind; otherwise conversion returns and
\* every node of an unrecognised kind is a passthrough node named by the kind
UnknownKinds ==
  (Finished /\ result.convertCalled) =>
    /\ Truthy(result.context.errorOnUnknownASTType)
         <=> (result.options.isDefined
              /\ Truthy(result.options.errorOnUnknownASTType))
    /\ result.error = "UnsupportedNodeKind" =>
         (Truthy(result.context.errorOnUnknownASTType) /\ HasUnknownKind)
    /\ ~(Truthy(result.context.errorOnUnknownASTType) /\ HasUnknownKind) =>
         /\ Returned
         /\ \A i \in 1..Len(result.tree.kinds) :
              IsUnknownKind(result.tree.kinds[i]) =>
                 /\ result.ast.nodes[i].passthrough
                 /\ result.ast.nodes[i].type = result.tree.kinds[i]

\* a call whose option is truthy without being a boolean failed on an
\* unrecognised kind
UnknownKindsWitness ==
  /\ result.status = "threw"
  /\ result.error = "UnsupportedNodeKind"
  /\ result.options.errorOnUnknownASTType = "yes"
  /\ result.options.project.type = "undefined"

\* C7: in calls made one after the other, the context handed to convert has
\* the call's code and has no setting enabled that the call's own options do
\* not enable
FreshContext ==
  (Finished /\ result.convertCalled) =>
    LET c == result.context
        o == result.options
    IN /\ c.code = result.code
       /\ c.range => (o.isDefined /\ o.range = "true")
       /\ c.loc => (o.isDefined /\ o.loc = "true")
       /\ c.source # Undef => (o.isDefined /\ o.source = c.source)
       /\ c.tokens # "null" => (o.isDefined /\ o.tokens = "true")
       /\ c.comment => (o.isDefined /\ o.comment = "true")
       /\ c.errors = "[]"
       /\ c.comments = "[]"
       /\ Truthy(c.ecmaFeatures.jsx)
            => (o.isDefined /\ o.ecmaFeatures.jsx = c.ecmaFeatures.jsx)
       /\ Truthy(c.errorOnUnknownASTType)
            => (o.isDefined /\ Truthy(o.errorOnUnknownASTType))
       /\ c.useJSXTextNode => (o.isDefined /\ o.useJSXTextNode = "true")
       /\ c.log # "console.log"
            => (o.isDefined /\ o.loggerFn \in {"false", "function", "reentrant"})
       /\ c.project # <<>>
            => (o.isDefined /\ o.project.type \in {"string", "array"})

\* the first call had a logger of its own and the second call, made with
\* empty options, converted with the default logger and every setting off
FreshContextWitness ==
  /\ result.call = 2
  /\ result.convertCalled
  /\ result.options = EmptyOptions
  /\ Len(logged) = 1
  /\ logged[1].call = 1
  /\ logged[1].log = "function"
  /\ result.context.log = "console.log"
  /\ ~result.context.range

\* the settings a call's own options enable, spelt out
OwnSettings(c, o) ==
  /\ c.range = (o.isDefined /\ o.range = "true")
  /\ c.loc = (o.isDefined /\ o.loc = "true")
  /\ (c.tokens # "null") = (o.isDefined /\ o.tokens = "true")
  /\ c.comment = (o.isDefined /\ o.comment = "true")
  /\ Truthy(c.ecmaFeatures.jsx) = (o.isDefined /\ Truthy(o.ecmaFeatures.jsx))
  /\ Truthy(c.errorOnUnknownASTType)
       = (o.isDefined /\ Truthy(o.errorOnUnknownASTType))
  /\ c.useJSXTextNode = (o.isDefined /\ o.useJSXTextNode = "true")
  /\ (c.log = "console.log")
       = (~o.isDefined \/ o.loggerFn \notin {"false", "function", "reentrant"})
  /\ (c.project # <<>>) = (o.isDefined /\ o.project.type \in {"string", "array"})

\* C8: a call that was in progress while another call ran, and the call
\* that ran meanwhile, each convert with exactly the settings of their own
\* options
ConcurrentCallsIsolated ==
  (Finished /\ result.convertCalled /\ (result.overlapped \/ result.depth > 1)) =>
    OwnSettings(result.context, result.options)

\* C9: the cache holds at most one program for a configuration path, and
\* after a request that returned a program it holds that program, under the
\* hash of the content the request read, and no other for the path
ProgramCacheInvariant ==
  \A p \in ConfigPaths :
    /\ Cardinality(EntriesFor(knownPrograms, p)) <= 1
    /\ requests[p].last.program # NoProgram =>
         EntriesFor(knownPrograms, p) =
           {[path |-> p, hash |-> requests[p].last.hash,
             program |-> requests[p].last.program]}

\* two requests for a path returned programs for different contents and the
\* cache holds one program for the path
ProgramCacheWitness ==
  LET r == requests["./tsconfig.json"] IN
  /\ r.prev.program # NoProgram
  /\ r.last.program # NoProgram
  /\ r.prev.hash # r.last.hash
  /\ Cardinality(EntriesFor(knownPrograms, "./tsconfig.json")) = 1

\* C10: of two successive requests for a configuration path that both
\* returned a program, the second returns the program of the first exactly
\* when the content hash is the same, and a program built after it, from the
\* content the request read, when the hash differs
CacheReuse ==
  \A p \in ConfigPaths :
    LET r == requests[p] IN
    (r.prev.program # NoProgram /\ r.last.program # NoProgram) =>
      /\ (r.last.program = r.prev.program) <=> (r.last.hash = r.prev.hash)
      /\ r.last.program.hash = r.last.hash
      /\ r.last.hash # r.prev.hash => r.last.program.born > r.prev.program.born

\* the second of two requests, made in a later call, returned the program
\* the first had built
CacheReuseWitness ==
  LET r == requests["./lib/tsconfig.json"] IN
  /\ r.prev.program # NoProgram
  /\ r.last.program = r.prev.program
  /\ result.call > r.prev.program.born
  /\ \E i \in 1..Len(result.consulted) :
       result.consulted[i].program = r.last.program

\* the list of project references the claim prescribes for a value of
\* options.project
NormalisedProject(project) ==
  IF project.type = "string" THEN <<project.items[1].value>>
  ELSE IF project.type = "array"
          /\ ~\E i \in 1..Len(project.items) : project.items[i].type # "string"
    THEN [i \in 1..Len(project.items) |-> project.items[i].value]
  ELSE <<>>

\* C12: the project list of a call is [options.project] for a string,
\* options.project for an array of strings and empty for every other value,
\* and the call asks for parser services (it consults the engine, and it
\* returns a program) exactly when that list is not empty
ProjectNormalisation ==
  (Finished /\ result.options.isDefined) =>
    LET list == NormalisedProject(result.options.project) IN
    /\ result.context.project = list
    /\ (Len(result.consulted) > 0) <=> (Len(list) > 0)
    /\ Returned => ((result.services.program # NoProgram) <=> (Len(list) > 0))
    /\ Returned => (ServicesUndefined <=> (Len(list) = 0))

\* a call whose options.project is an array with an element that is not a
\* string has returned without services
ProjectNormalisationWitness ==
  /\ Returned
  /\ result.options.project = ProjectArray(<<Str(TS), Num("42")>>)
  /\ result.context.project = <<>>
  /\ result.consulted = <<>>
  /\ ServicesUndefined

\* C13: when parse returns a defined services.program, the native tree
\* converted into the returned generic tree is the source file this program
\* returned from getSourceFile, and the native nodes of the returned maps are
\* nodes of this program
ProgramOwnsTree ==
  (Returned /\ result.services.program # NoProgram) =>
    LET program == result.services.program IN
    /\ result.tree.defined
    /\ result.tree.owner = program
    /\ result.tree = getSourceFile(program, result.tree.fileName, result.code)
    /\ Len(result.ast.nodes) = Len(result.tree.kinds)
    /\ \A p \in result.services.esTreeNodeToTSNodeMap.pairs :
         /\ p[2].owner = program.path
         /\ p[2].born = program.born
         /\ p[2].fileName \in program.files

\* the call consulted two configurations and returned the program of the
\* second, the first one that has the file
ProgramOwnsTreeWitness ==
  /\ Returned
  /\ ~result.usedShim
  /\ Len(result.consulted) = 2
  /\ result.services.program = result.consulted[2].program
  /\ result.services.program # result.consulted[1].program
  /\ result.tree.fileName = result.options.filePath

\* C14: range, loc, tokens, comment and useJSXTextNode are enabled in the
\* context of a call exactly when the option is the boolean true; tokens is
\* null unless enabled, and source is set, to options.source, only when loc
\* is enabled and options.source is neither null nor undefined
BooleanStrictness ==
  Finished =>
    LET o == result.options
        c == result.context
    IN /\ c.range = (o.range = "true")
       /\ c.loc = (o.loc = "true")
       /\ c.comment = (o.comment = "true")
       /\ c.useJSXTextNode = (o.useJSXTextNode = "true")
       /\ c.tokens = (IF o.tokens = "true" THEN "[]" ELSE "null")
       /\ (c.source # Undef) <=>
            (o.loc = "true" /\ o.source # "null" /\ o.source # Undef)
       /\ c.source # Undef => c.source = o.source
       /\ Returned =>
            /\ (result.ast.tokens = "omitted") <=> (o.tokens # "true")
            /\ (result.ast.comments = "omitted") <=> (o.comment # "true")
            /\ \A i \in 1..Len(result.ast.nodes) :
                 /\ result.ast.nodes[i].hasRange = (o.range = "true")
                 /\ result.ast.nodes[i].hasLoc = (o.loc = "true")

\* a call that gave all five options a truthy value that is no boolean, and
\* a source, has returned with all of them disabled
BooleanStrictnessWitness ==
  /\ Returned
  /\ result.options.range = "yes"
  /\ result.options.loc = "yes"
  /\ result.options.tokens = "yes"
  /\ result.options.comment = "yes"
  /\ result.options.useJSXTextNode = "yes"
  /\ result.options.source = "file.ts"
  /\ ~result.context.range
  /\ ~result.context.loc
  /\ ~result.context.comment
  /\ ~result.context.useJSXTextNode
  /\ result.context.tokens = "null"
  /\ result.context.source = Undef

\* C15: when a call uses the shim, the converted tree is the shim program's
\* source file, created from the caller's source text under the one file
\* name the program has: 'estree.tsx', with the jsx option Preserve, exactly
\* when options.ecmaFeatures.jsx is truthy, and 'estree.ts', with the jsx
\* option undefined, otherwise
ShimDialect ==
  (Finished /\ result.usedShim) =>
    LET jsx     == result.options.ecmaFeatures.jsx \notin {Undef, "null", "false", ""}
        program == result.tree.owner
    IN /\ result.tree.defined
       /\ result.tree.fileName = (IF jsx THEN "estree.tsx" ELSE "estree.ts")
       /\ program.jsx = (IF jsx THEN "Preserve" ELSE Undef)
       /\ program.path = "<shim>"
       /\ program.noResolve
       /\ program.born = result.call
       /\ program.files = {result.tree.fileName}
       /\ result.tree.text = result.code
       /\ result.tree.kinds = KindsOf(result.code)

\* a call whose code is the number 3 and whose ecmaFeatures.jsx is a truthy
\* value that is no boolean has converted the shim's 'estree.tsx'
ShimDialectWitness ==
  /\ Returned
  /\ result.usedShim
  /\ result.options.ecmaFeatures = Features("yes")
  /\ result.code = "3"
  /\ result.tree.fileName = "estree.tsx"
  /\ result.tree.owner.jsx = "Preserve"

\* the logger of a call: options.loggerFn when it is a function, the function
\* that does nothing when it is false, console.log otherwise
LoggerOf(options) ==
  IF options.loggerFn \in {"function", "reentrant", "throws"} THEN options.loggerFn
  ELSE IF options.loggerFn = "false" THEN "Function.prototype"
  ELSE "console.log"

\* C16: over the parse calls of one process the version warning is handed
\* to a logger at most once: never when the version is supported, and
\* otherwise in the first call, to that call's own logger
WarningAtMostOnce ==
  /\ Len(logged) <= 1
  /\ supportedVersion => logged = <<>>
  /\ (~supportedVersion /\ callCount > 0) => Len(logged) >= 1
  /\ \A i \in 1..Len(logged) : logged[i].call = 1
  /\ (result.call = 1 /\ ~supportedVersion) =>
       logged[1] = [call |-> 1, log |-> LoggerOf(result.options)]

\* a generic tree without the identities of its nodes: what deep equality
\* compares
Structure(estree) ==
  [ defined |-> estree.defined,
    nodes |-> [i \in 1..Len(estree.nodes) |->
                 [ type |-> estree.nodes[i].type,
                   passthrough |-> estree.nodes[i].passthrough,
                   synthetic |-> estree.nodes[i].synthetic,
                   hasRange |-> estree.nodes[i].hasRange,
                   hasLoc |-> estree.nodes[i].hasLoc ]],
    tokens |-> estree.tokens,
    comments |-> estree.comments ]

\* the call that finished last was made with the code and the options of the
\* earlier call whose result the caller kept, and both returned
SameCallTwice ==
  /\ kept.status = "returned"
  /\ Returned
  /\ kept.call < result.call
  /\ kept.code = result.code
  /\ kept.options = result.options

\* C11: two parse calls with the same source text and the same options,
\* whatever calls ran before or between them, return generic trees that are
\* structurally identical, made of different nodes, and node maps that have
\* no entry in common
Idempotence ==
  SameCallTwice =>
    /\ Structure(kept.ast) = Structure(result.ast)
    /\ \A i \in 1..Len(kept.ast.nodes) : \A j \in 1..Len(result.ast.nodes) :
         kept.ast.nodes[i].id # result.ast.nodes[j].id
    /\ kept.registry.esTreeNodeToTSNodeMap.pairs
         \cap result.registry.esTreeNodeToTSNodeMap.pairs = {}
    /\ kept.registry.tsNodeToESTreeNodeMap.pairs
         \cap result.registry.tsNodeToESTreeNodeMap.pairs = {}
    /\ kept.services.esTreeNodeToTSNodeMap.defined
         = result.services.esTreeNodeToTSNodeMap.defined
    /\ kept.services.esTreeNodeToTSNodeMap.pairs
         \cap result.services.esTreeNodeToTSNodeMap.pairs = {}
    /\ kept.services.tsNodeToESTreeNodeMap.pairs
         \cap result.services.tsNodeToESTreeNodeMap.pairs = {}

\* the first and the third call were made with a project, the same code and
\* the same options, another call ran between them, and both returned the
\* same program and node maps with entries
IdempotenceWitness ==
  /\ SameCallTwice
  /\ kept.call = 1
  /\ result.call = 3
  /\ result.options.project = ProjectString(TS)
  /\ result.options.filePath = "isolated-file.src.ts"
  /\ kept.services.esTreeNodeToTSNodeMap.pairs # {}
  /\ result.services.esTreeNodeToTSNodeMap.pairs # {}
  /\ kept.services.program = result.services.program

\* the fixtures a call names in parseWithSourceTypeModule, and the file type
\* of its patterns
NamedModules(c) == OrEmpty(c.config.parseWithSourceTypeModule)
FileTypeOf(c) ==
  IF c.config.fileType \in {Undef, ""} THEN "js" ELSE c.config.fileType

\* the positions of the pattern in a list of pattern configs
PositionsOf(pattern, configs) ==
  {j \in 1..Len(configs) : configs[j].pattern = pattern}

\* C17: createFixturePatternConfigFor throws exactly when fixturesSubPath is
\* empty; otherwise the base pattern it returns ignores, after the call's
\* ignore list, every fixture named in parseWithSourceTypeModule, and each of
\* these fixtures has exactly one pattern '<subPath>/<fixture>.src.<fileType>'
\* of its own, with sourceType 'module'; in the final list the base patterns
\* precede the module patterns, and no such fixture is queued both with the
\* default and with the module configuration
FixturePatternConstruction ==
  /\ \A i \in 1..Len(created) :
       LET c == created[i] IN
       /\ c.threw <=> (c.fixturesSubPath = "")
       /\ c.threw => (i = Len(created) /\ loading = "failed")
       /\ ~c.threw =>
            /\ c.value.sourceType = Undef
            /\ c.value.pattern =
                 c.fixturesSubPath \o "/!("
                   \o join(OrEmpty(c.config.ignore) \o NamedModules(c), "|")
                   \o ").src." \o FileTypeOf(c)
            /\ \A k \in 1..Len(NamedModules(c)) :
                 LET own == c.fixturesSubPath \o "/" \o NamedModules(c)[k]
                              \o ".src." \o FileTypeOf(c)
                     at  == PositionsOf(own, fixturesRequiringSourceTypeModule)
                 IN /\ Cardinality(at) = 1
                    /\ \A j \in at :
                         fixturesRequiringSourceTypeModule[j].sourceType = "module"
                    /\ \A e \in 1..Len(fixturesToTest) :
                         fixturesToTest[e].filename = fixturesDirPath \o "/" \o own
                           => fixturesToTest[e].sourceType = "module"
  /\ \A j \in 1..Len(fixturesRequiringSourceTypeModule) :
       fixturesRequiringSourceTypeModule[j].sourceType = "module"
  /\ loading \in {"patterns", "resolved"} =>
       /\ Len(fixturePatternConfigsToTest)
            = Len(created) + Len(fixturesRequiringSourceTypeModule)
       /\ \A j \in 1..Len(fixturePatternConfigsToTest) :
            fixturePatternConfigsToTest[j].sourceType
              = (IF j <= Len(created) THEN Undef ELSE "module")
  /\ \A e \in 1..Len(fixturesToTest) : \A f \in 1..Len(fixturesToTest) :
       (fixturesToTest[e].filename = fixturesToTest[f].filename
          /\ fixturesToTest[e].sourceType = "module")
         => fixturesToTest[f].sourceType = "module"

\* the fixtures have been resolved: a fixture named in
\* parseWithSourceTypeModule is queued once, with sourceType 'module', other
\* fixtures of its directory are queued with the default configuration, and
\* they come before it
FixturePatternWitness ==
  /\ loading = "resolved"
  /\ \E i \in 1..Len(created) :
       /\ created[i].fixturesSubPath = "javascript/modules"
       /\ NamedModules(created[i]) = <<"export-default-array">>
  /\ \E e \in 1..Len(fixturesToTest) :
       /\ fixturesToTest[e].filename
            = "fixtures/javascript/modules/export-default-array.src.js"
       /\ fixturesToTest[e].sourceType = "module"
       /\ \A f \in 1..Len(fixturesToTest) :
            fixturesToTest[f].filename = fixturesToTest[e].filename => f = e
       /\ \E f \in 1..(e - 1) :
            /\ fixturesToTest[f].filename
                 = "fixtures/javascript/modules/import-default.src.js"
            /\ fixturesToTest[f].sourceType = Undef

====
